---- MODULE Spec2Model ----
(***************************************************************************)
(* Model of the consistent-hash ring `Consistent` of src/src/lib.rs.       *)
(*                                                                         *)
(* The state is the struct's five fields plus the hash function and a      *)
(* record of the last call.  Every public method is one action; the        *)
(* methods themselves are operators over a ring value (the four mutable    *)
(* fields), so that `set` can compose `remove` and `add` the way the code  *)
(* does and a property can compare the ring before and after a call.       *)
(*                                                                         *)
(* fxhash::hash32 is an external function of which the ring uses only the  *)
(* order and the equality of its values (sort, partition_point, map key).  *)
(* It is modelled as a function fixed at construction time; every order    *)
(* type of the hashed virtual-node keys, collisions included, is drawn     *)
(* once, with the virtual nodes on the odd points of a grid and one lookup *)
(* key on every point of the grid (on, between, below and above them).     *)
(***************************************************************************)
EXTENDS Integers, Sequences, FiniteSets, TLC

VARIABLES
    circle,              \* lib.rs:13  hash -> member name
    members,             \* lib.rs:14  set of member names
    sorted_hashes,       \* lib.rs:15  the lookup index (0-based in the code, 1-based here)
    number_of_replicas,  \* lib.rs:16
    count,               \* lib.rs:17  usize, held as its two's-complement reading
    hash_of,             \* fxhash::hash32 restricted to the strings that are hashed
    call,                \* the last call: operation, arguments, result, ring before it
    threads,             \* concurrent callers: the call each runs and where it stands
    rwlock               \* lib.rs:15  the RwLock around sorted_hashes

vars == <<circle, members, sorted_hashes, number_of_replicas, count, hash_of, call,
          threads, rwlock>>

-----------------------------------------------------------------------------
(* Bounds *)

MaxReplicas == 2    \* number_of_replicas ranges over 0..MaxReplicas
MaxVNodes == 4      \* at most this many virtual-node keys exist for one ring
MaxSetLen == 2      \* length of the list given to set
MaxDrift == 1       \* |count - members.len()| the model follows
MaxN == 3           \* largest n given to get_n

MemberNames == <<"a", "b", "c">>

Min(x, y) == IF x <= y THEN x ELSE y

\* The member names a ring with r replicas is driven with.
Elts(r) ==
    IF r = 0 THEN {MemberNames[k] : k \in 1..Len(MemberNames)}
    ELSE {MemberNames[k] : k \in 1..Min(Len(MemberNames), MaxVNodes \div r)}

-----------------------------------------------------------------------------
(* Helpers of the code *)

\* lib.rs:208  format!("{}{}", idx, elt)
elt_key(elt, idx) == ToString(idx) \o elt

\* lib.rs:190  fxhash::hash32(key)
hash_key(key) == hash_of[key]

\* The virtual-node keys of the members a ring with r replicas is driven with.
VNodeKeys(r) == {elt_key(e, i) : e \in Elts(r), i \in 0..(r - 1)}

\* Hash values: a grid with one odd point for every virtual-node key.
HashValues(r) == 0..(2 * Cardinality(VNodeKeys(r)))

\* The lookup keys: "k0", "k1", ..., key "k<h>" hashing to h.
KeyName(h) == "k" \o ToString(h)
Names(r) == {KeyName(h) : h \in HashValues(r)}

\* The hash functions drawn at construction: virtual-node keys take ranks
\* 0..k-1 without gaps (rank q is the grid point 2q+1), lookup key "k<h>" is h.
HashFunctions(r) ==
    LET V == VNodeKeys(r)
        Ranks == {f \in [V -> 0..(Cardinality(V) - 1)] :
                     \A v \in V : f[v] = 0 \/ \E w \in V : f[w] = f[v] - 1}
    IN  {[s \in V \cup Names(r) |->
             IF s \in V THEN 2 * f[s] + 1
             ELSE CHOOSE h \in HashValues(r) : KeyName(h) = s] : f \in Ranks}

\* The hash positions of the replicas of elt (lib.rs:44-46, 54-56).
Positions(elt) == {hash_key(elt_key(elt, i)) : i \in 0..(number_of_replicas - 1)}

RECURSIVE SortAsc(_)
\* Vec::sort of the values of a set (lib.rs:204).
SortAsc(S) ==
    IF S = {} THEN <<>>
    ELSE LET m == CHOOSE x \in S : \A y \in S : x <= y
         IN  <<m>> \o SortAsc(S \ {m})

\* The ring: the fields a method changes.
Ring(c, m, s, n) == [circle |-> c, members |-> m, sorted_hashes |-> s, count |-> n,
                     panicked |-> FALSE]

self == Ring(circle, members, sorted_hashes, count)

\* lib.rs:27-35
new == Ring(<<>>, {}, <<>>, 0)

-----------------------------------------------------------------------------
(* Mutations, lib.rs:42-88 and 194-205 *)

\* lib.rs:194-205.  The index is cleared and refilled from circle, then sorted.
\* The shrink test divides by number_of_replicas * 4 and panics when that is 0,
\* after the clear.
update_sorted_hashes(r) ==
    IF number_of_replicas * 4 = 0
    THEN [r EXCEPT !.sorted_hashes = <<>>, !.panicked = TRUE]
    ELSE [r EXCEPT !.sorted_hashes = SortAsc(DOMAIN r.circle)]

\* insert_replicas with the loop started at replica 1.
insert_replicas_from_one(c, elt) ==
    LET P == {hash_key(elt_key(elt, i)) : i \in 1..(number_of_replicas - 1)}
    IN  [h \in (DOMAIN c) \cup P |-> IF h \in P THEN elt ELSE c[h]]

\* lib.rs:44-47  circle.insert(hash, elt) for every replica: overwrites.
insert_replicas(c, elt) ==
    LET P == Positions(elt)
    IN  [h \in (DOMAIN c) \cup P |-> IF h \in P THEN elt ELSE c[h]]

\* remove_replicas with the loop started at replica 1.
remove_replicas_from_one(c, elt) ==
    [h \in (DOMAIN c) \ {hash_key(elt_key(elt, i)) : i \in 1..(number_of_replicas - 1)}
        |-> c[h]]

\* lib.rs:54-57  circle.remove(hash) for every replica, whoever owns the entry.
remove_replicas(c, elt) ==
    [h \in (DOMAIN c) \ Positions(elt) |-> c[h]]

\* add without the rebuild of the index.
add_stale_index(r, elt) ==
    LET r1 == [r EXCEPT !.circle = insert_replicas(r.circle, elt)]
        r2 == [r1 EXCEPT !.members = @ \cup {elt}]
    IN  [r2 EXCEPT !.count = @ + 1]

\* lib.rs:42-51
add(r, elt) ==
    LET r1 == [r EXCEPT !.circle = insert_replicas(r.circle, elt)]
        r2 == [r1 EXCEPT !.members = @ \cup {elt}]
        r3 == update_sorted_hashes(r2)
    IN  IF r3.panicked THEN r3 ELSE [r3 EXCEPT !.count = @ + 1]

\* remove without the rebuild of the index.
remove_stale_index(r, elt) ==
    LET r1 == [r EXCEPT !.circle = remove_replicas(r.circle, elt)]
        r2 == [r1 EXCEPT !.members = @ \ {elt}]
    IN  [r2 EXCEPT !.count = @ - 1]

\* lib.rs:53-61  fetch_sub wraps: -1 stands for usize::MAX.
remove(r, elt) ==
    LET r1 == [r EXCEPT !.circle = remove_replicas(r.circle, elt)]
        r2 == [r1 EXCEPT !.members = @ \ {elt}]
        r3 == update_sorted_hashes(r2)
    IN  IF r3.panicked THEN r3 ELSE [r3 EXCEPT !.count = @ - 1]

RECURSIVE remove_all(_, _)
\* lib.rs:79-81
remove_all(r, keys) ==
    IF keys = <<>> \/ r.panicked THEN r
    ELSE remove_all(remove(r, Head(keys)), Tail(keys))

RECURSIVE add_missing(_, _)
\* lib.rs:83-87
add_missing(r, elts) ==
    IF elts = <<>> \/ r.panicked THEN r
    ELSE add_missing(IF Head(elts) \in r.members THEN r ELSE add(r, Head(elts)),
                     Tail(elts))

Range(s) == {s[k] : k \in 1..Len(s)}

\* The orders in which DashSet::iter may yield a set (lib.rs:66).
Orders(S) == {s \in [1..Cardinality(S) -> S] : Range(s) = S}

\* set without the removal of the members that are not in elts.
set_add_only(r, elts, keys) == add_missing(r, elts)

\* lib.rs:63-88, for one iteration order `keys` of the members not in elts.
set(r, elts, keys) == add_missing(remove_all(r, keys), elts)

\* lib.rs:90-95
members_of(r) == r.members

-----------------------------------------------------------------------------
(* Queries, lib.rs:97-188 *)

\* Results: Ok(value), Err(EmptyCircle), a panic (index out of bounds, unwrap
\* of None) or a walk that never returns.
Ok(v) == [tag |-> "Ok", val |-> v]
EmptyCircle == [tag |-> "EmptyCircle", val |-> <<>>]
Panic == [tag |-> "Panic", val |-> <<>>]
Hang == [tag |-> "Hang", val |-> <<>>]

\* Element i of a Vec, 0-based as in the code.
At(v, i) == v[i + 1]

RECURSIVE partition_point(_, _, _)
\* slice::partition_point(|x| *x <= key): the first index, from i on, whose
\* element is not <= key (the slice is partitioned because it is sorted).
partition_point(v, key, i) ==
    IF i < Len(v) /\ At(v, i) <= key THEN partition_point(v, key, i + 1) ELSE i

\* search with the test of partition_point turned into *x < key.
search_at_or_after(sorted, key) ==
    LET below == {k \in 1..Len(sorted) : sorted[k] < key}
    IN  IF Cardinality(below) >= Len(sorted) THEN 0 ELSE Cardinality(below)

\* lib.rs:180-188
search(sorted, key) ==
    LET i == partition_point(sorted, key, 0)
    IN  IF i >= Len(sorted) THEN 0 ELSE i

\* circle.get(&sorted_hashes[i]).unwrap() succeeds (lib.rs:103-106, 116-119, 131, 154-156, 168).
Resolves(r, i) == i < Len(r.sorted_hashes) /\ At(r.sorted_hashes, i) \in DOMAIN r.circle

Owner(r, i) == r.circle[At(r.sorted_hashes, i)]

\* get reading the entry after the one search found, as the walks start.
get_one_past(r, name) ==
    IF DOMAIN r.circle = {} THEN EmptyCircle
    ELSE LET key == hash_key(name)
             i == (search(r.sorted_hashes, key) + 1) % Len(r.sorted_hashes)
         IN  IF Resolves(r, i) THEN Ok(Owner(r, i)) ELSE Panic

\* lib.rs:97-108
get(r, name) ==
    IF DOMAIN r.circle = {} THEN EmptyCircle
    ELSE LET key == hash_key(name)
             i == search(r.sorted_hashes, key)
         IN  IF Resolves(r, i) THEN Ok(Owner(r, i)) ELSE Panic

RECURSIVE two_walk(_, _, _, _, _)
\* lib.rs:127-138, from the loop test with index j.  The index j at the loop
\* test takes at most Len+1 values before it repeats; a walk that has not left
\* the loop after that many rounds never does: `rounds` counts them down.
two_walk(r, a, i, j, rounds) ==
    IF j = i THEN Ok(<<a, "">>)
    ELSE IF rounds = 0 THEN Hang
    ELSE LET j1 == IF j >= Len(r.sorted_hashes) THEN 0 ELSE j
         IN  IF ~Resolves(r, j1) THEN Panic
             ELSE IF a # Owner(r, j1) THEN Ok(<<a, Owner(r, j1)>>)
             ELSE two_walk(r, a, i, j1 + 1, rounds - 1)

\* lib.rs:110-139
get_two(r, name) ==
    IF DOMAIN r.circle = {} THEN EmptyCircle
    ELSE LET key == hash_key(name)
             i == search(r.sorted_hashes, key)
         IN  IF ~Resolves(r, i) THEN Panic
             ELSE IF r.count = 1 THEN Ok(<<Owner(r, i), "">>)
             ELSE two_walk(r, Owner(r, i), i, i + 1, Len(r.sorted_hashes) + 1)

\* lib.rs:212-219
slice_contains_member(res, member) == \E k \in 1..Len(res) : res[k] = member

RECURSIVE n_walk(_, _, _, _, _, _)
\* lib.rs:164-177, from the loop test with index j and the names collected.
n_walk(r, n, res, i, j, rounds) ==
    IF j = i THEN Ok(res)
    ELSE IF rounds = 0 THEN Hang
    ELSE LET j1 == IF j >= Len(r.sorted_hashes) THEN 0 ELSE j
         IN  IF ~Resolves(r, j1) THEN Panic
             ELSE LET res1 == IF slice_contains_member(res, Owner(r, j1)) THEN res
                              ELSE Append(res, Owner(r, j1))
                  IN  IF Len(res1) = n THEN Ok(res1)
                      ELSE n_walk(r, n, res1, i, j1 + 1, rounds - 1)

\* lib.rs:145-148  count < n on usize: a wrapped count is above every n.
capped(cnt, n) == IF cnt >= 0 /\ cnt < n THEN cnt ELSE n

\* lib.rs:141-178
get_n(r, name, n0) ==
    IF DOMAIN r.circle = {} THEN EmptyCircle
    ELSE LET n == capped(r.count, n0)
             key == hash_key(name)
             i == search(r.sorted_hashes, key)
         IN  IF ~Resolves(r, i) THEN Panic
             ELSE IF n = 1 THEN Ok(<<Owner(r, i)>>)
             ELSE n_walk(r, n, <<Owner(r, i)>>, i, i + 1, Len(r.sorted_hashes) + 1)

-----------------------------------------------------------------------------
(* The state machine: a single caller, one call at a time *)

Call(op, elt, elts, name, n, ret) ==
    [op |-> op, elt |-> elt, elts |-> elts, name |-> name, n |-> n, ret |-> ret,
     pre |-> self]

Done == [tag |-> "Done", val |-> <<>>]

\* A run is a sequence of completed mutations followed by one query: a query
\* leaves the ring as it is, so every pair of a reachable ring and a query is
\* covered.  A mutation that panics ends the run.
Returned == call.ret.tag = "Done"

\* The member names and set lists the ring is driven with.
Members == Elts(number_of_replicas)
Lists == UNION {[1..k -> Members] : k \in 0..MaxSetLen}
Keys == Names(number_of_replicas)

Drift(r) == r.count - Cardinality(r.members)
InBounds(r) == Drift(r) <= MaxDrift /\ -Drift(r) <= MaxDrift

\* The ring after a mutation that left it as r.
Becomes(r) ==
    /\ circle' = r.circle
    /\ members' = r.members
    /\ sorted_hashes' = r.sorted_hashes
    /\ count' = r.count
    /\ UNCHANGED <<number_of_replicas, hash_of, threads, rwlock>>

MutRet(r) == IF r.panicked THEN Panic ELSE Done

\* RwLock::new: no writer (0), no readers.
Unlocked == [writer |-> 0, readers |-> {}]

Init ==
    /\ threads = <<>>
    /\ rwlock = Unlocked
    /\ number_of_replicas \in 0..MaxReplicas
    /\ hash_of \in HashFunctions(number_of_replicas)
    /\ circle = new.circle
    /\ members = new.members
    /\ sorted_hashes = new.sorted_hashes
    /\ count = new.count
    /\ call = [op |-> "new", elt |-> "", elts |-> <<>>, name |-> "", n |-> 0,
               ret |-> Done, pre |-> new]

Add(elt) ==
    /\ Returned
    /\ LET r == add(self, elt)
       IN  /\ InBounds(r)
           /\ Becomes(r)
           /\ call' = Call("add", elt, <<>>, "", 0, MutRet(r))

Remove(elt) ==
    /\ Returned
    /\ LET r == remove(self, elt)
       IN  /\ InBounds(r)
           /\ Becomes(r)
           /\ call' = Call("remove", elt, <<>>, "", 0, MutRet(r))

Set(elts) ==
    /\ Returned
    /\ \E keys \in Orders(members \ Range(elts)) :
          LET r == set(self, elts, keys)
          IN  /\ Becomes(r)
              /\ call' = Call("set", "", elts, "", 0, MutRet(r))

Get(name) ==
    /\ Returned
    /\ call' = Call("get", "", <<>>, name, 0, get(self, name))
    /\ UNCHANGED <<circle, members, sorted_hashes, number_of_replicas, count, hash_of,
                   threads, rwlock>>

GetTwo(name) ==
    /\ Returned
    /\ call' = Call("get_two", "", <<>>, name, 0, get_two(self, name))
    /\ UNCHANGED <<circle, members, sorted_hashes, number_of_replicas, count, hash_of,
                   threads, rwlock>>

GetN(name, n) ==
    /\ Returned
    /\ call' = Call("get_n", "", <<>>, name, n, get_n(self, name, n))
    /\ UNCHANGED <<circle, members, sorted_hashes, number_of_replicas, count, hash_of,
                   threads, rwlock>>

Next ==
    \/ \E elt \in Members : Add(elt)
    \/ \E elt \in Members : Remove(elt)
    \/ \E elts \in Lists : Set(elts)
    \/ \E name \in Keys : Get(name)
    \/ \E name \in Keys : GetTwo(name)
    \/ \E name \in Keys, n \in 0..MaxN : GetN(name, n)

Spec == Init /\ [][Next]_vars

-----------------------------------------------------------------------------
(* Properties *)

Completed(op) == call.op = op /\ call.ret.tag = "Done"

\* No two virtual-node keys of the ring's member names hash to the same value.
NoCollisions ==
    \A v, w \in VNodeKeys(number_of_replicas) : v # w => hash_key(v) # hash_key(w)

MinOf(S) == CHOOSE x \in S : \A y \in S : x <= y

\* The member of the first virtual node of circle c that satisfies After, or
\* of the smallest one when none does.
Clockwise(c, After(_)) ==
    LET ahead == {h \in DOMAIN c : After(h)}
    IN  c[MinOf(IF ahead = {} THEN DOMAIN c ELSE ahead)]

OwnerAtOrAfter(c, key) == LET After(h) == h >= key IN Clockwise(c, After)
OwnerAfter(c, key) == LET After(h) == h > key IN Clockwise(c, After)

\* C1 as claimed: on a non-empty ring get(key) returns the member of the
\* smallest virtual-node hash h >= hash(key), wrapping to the smallest hash
\* overall, also when hash(key) equals a virtual-node hash.
C1_GetAtOrAfter ==
    (call.op = "get" /\ DOMAIN circle # {}) =>
        call.ret = Ok(OwnerAtOrAfter(circle, hash_key(call.name)))

\* C1 as amended: on a non-empty ring get(key) returns the member of the
\* smallest virtual-node hash h > hash(key), wrapping to the smallest hash
\* overall when no virtual-node hash is above hash(key); a key whose hash
\* equals a virtual-node hash goes to the next virtual node.
C1_GetStrictlyAfter ==
    (call.op = "get" /\ DOMAIN circle # {}) =>
        call.ret = Ok(OwnerAfter(circle, hash_key(call.name)))

\* A get whose key hashes onto a virtual node of one member and is answered
\* with another member.
C1_Witness ==
    /\ call.op = "get"
    /\ hash_key(call.name) \in DOMAIN circle
    /\ call.ret.tag = "Ok"
    /\ call.ret.val # circle[hash_key(call.name)]

\* C2: stability under growth.  When add(x) of a name x that is not a member
\* completes on a non-empty ring, every key's owner is the owner it had
\* before or x.
C2_StableUnderGrowth ==
    (Completed("add") /\ call.elt \notin call.pre.members
                      /\ DOMAIN call.pre.circle # {}) =>
        \A name \in Keys :
            /\ get(call.pre, name).tag = "Ok"
            /\ get(self, name).tag = "Ok"
            /\ get(self, name).val \in {get(call.pre, name).val, call.elt}

\* An add of a new member to a non-empty ring after which one key has moved
\* to the new member and another key has kept its owner.
C2_Witness ==
    /\ Completed("add")
    /\ call.elt \notin call.pre.members
    /\ DOMAIN call.pre.circle # {}
    /\ \E name \in Keys : /\ get(self, name).val = call.elt
                          /\ get(call.pre, name).val # call.elt
    /\ \E name \in Keys : /\ get(self, name).val # call.elt
                          /\ get(self, name).val = get(call.pre, name).val

\* What C3 says of one remove(c): keys owned by c go to a remaining member,
\* every other key keeps its owner.
MinimalDisruption ==
    \A name \in Keys :
        get(call.pre, name).tag = "Ok" =>
            /\ get(self, name).tag = "Ok"
            /\ IF get(call.pre, name).val = call.elt
               THEN get(self, name).val \in members
               ELSE get(self, name).val = get(call.pre, name).val

RemovedOneOfSeveral ==
    /\ Completed("remove")
    /\ call.elt \in call.pre.members
    /\ Cardinality(call.pre.members) >= 2

\* C3 as claimed: minimal disruption on removal, on every ring with at least
\* two members.
C3_MinimalDisruption == RemovedOneOfSeveral => MinimalDisruption

\* C3 as amended: minimal disruption on removal, on every ring with at least
\* two members, provided no two virtual-node keys hash to the same value.
C3_MinimalDisruptionNoCollisions ==
    (RemovedOneOfSeveral /\ NoCollisions) => MinimalDisruption

\* A removal from a collision-free ring of two or more members after which a
\* key of the removed member has a new owner and another key has kept its own.
C3_Witness ==
    /\ RemovedOneOfSeveral
    /\ NoCollisions
    /\ \E name \in Keys : get(call.pre, name).val = call.elt
    /\ \E name \in Keys : /\ get(call.pre, name).val # call.elt
                          /\ get(self, name).val = get(call.pre, name).val

-----------------------------------------------------------------------------

IsQuery == call.op \in {"get", "get_two", "get_n"}

\* C4: a query returns EmptyCircle when the ring has no members and a
\* successful result when at least one member is present, in every state
\* reached by completed add/remove/set calls.  Stated for the rings whose
\* virtual-node hashes do not collide, which the claim covers.
C4_EmptyCircleIffNoMembers ==
    (IsQuery /\ NoCollisions) =>
        IF members = {} THEN call.ret = EmptyCircle ELSE call.ret.tag = "Ok"

Distinct(res) == \A k, l \in 1..Len(res) : k # l => res[k] # res[l]

\* C5: on a non-empty ring get_n(key, n) returns pairwise distinct current
\* members, the owner of the key first, at most min(n, number of members) of
\* them, and all the members when n is at least their number; for every n,
\* n = 0 and n above the number of members included.  Stated for the rings
\* whose virtual-node hashes do not collide, which the claim covers.
C5_GetNDistinctCapped ==
    (call.op = "get_n" /\ DOMAIN circle # {} /\ NoCollisions) =>
        /\ call.ret.tag = "Ok"
        /\ Distinct(call.ret.val)
        /\ Range(call.ret.val) \subseteq members
        /\ Len(call.ret.val) > 0 => call.ret.val[1] = get(self, call.name).val
        /\ Len(call.ret.val) <= Min(call.n, Cardinality(members))
        /\ call.n >= Cardinality(members) => Range(call.ret.val) = members

\* The first hash of D clockwise after the point `from`.
FirstFrom(D, from) ==
    MinOf(IF {h \in D : h > from} = {} THEN D ELSE {h \in D : h > from})

\* The member of the first virtual node, clockwise from the key's owner, that
\* belongs to another member ("" when there is none).
NextDistinct(c, key) ==
    LET h0 == FirstFrom(DOMAIN c, key)
        others == {h \in DOMAIN c : c[h] # c[h0]}
    IN  IF others = {} THEN "" ELSE c[FirstFrom(others, h0)]

\* C6: on a non-empty ring get_two(key) returns (a, b) with a the owner of
\* the key and b the member of the first virtual node clockwise from a's whose
\* member differs from a; b is never a, and b is the empty placeholder only
\* when exactly one member exists.  Stated for the rings whose virtual-node
\* hashes do not collide, which the claim covers.
C6_GetTwoDistinct ==
    (call.op = "get_two" /\ DOMAIN circle # {} /\ NoCollisions) =>
        /\ call.ret.tag = "Ok"
        /\ call.ret.val[1] = get(self, call.name).val
        /\ call.ret.val[2] # call.ret.val[1]
        /\ call.ret.val[2] = "" => Cardinality(members) = 1
        /\ call.ret.val[2] # "" =>
               call.ret.val[2] = NextDistinct(circle, hash_key(call.name))

\* C7: after set(L) completes, members() is exactly the set of names in L
\* and, absent hash collisions, circle and sorted_hashes each hold
\* |distinct(L)| * number_of_replicas entries.
C7_SetConverges ==
    Completed("set") =>
        /\ members_of(self) = Range(call.elts)
        /\ NoCollisions =>
             /\ Cardinality(DOMAIN circle)
                    = Cardinality(Range(call.elts)) * number_of_replicas
             /\ Len(sorted_hashes)
                    = Cardinality(Range(call.elts)) * number_of_replicas

\* A collision-free set that removed a member, added another and was given
\* a name twice.
C7_Witness ==
    /\ Completed("set")
    /\ NoCollisions
    /\ call.pre.members \ Range(call.elts) # {}
    /\ Range(call.elts) \ call.pre.members # {}
    /\ Len(call.elts) > Cardinality(Range(call.elts))
    /\ DOMAIN circle # {}

OwnedBy(c, m) == {h \in DOMAIN c : c[h] = m}

\* C8: after every completed mutation, absent hash collisions, circle holds
\* members.len() * number_of_replicas entries, number_of_replicas of them for
\* every member, and sorted_hashes has the same length.
C8_ReplicaCount ==
    (call.ret.tag = "Done" /\ NoCollisions) =>
        /\ Cardinality(DOMAIN circle) = Cardinality(members) * number_of_replicas
        /\ \A m \in members : Cardinality(OwnedBy(circle, m)) = number_of_replicas
        /\ Len(sorted_hashes) = Cardinality(DOMAIN circle)

\* The add of a second member to a collision-free ring of several replicas.
C8_Witness ==
    /\ Completed("add")
    /\ NoCollisions
    /\ number_of_replicas >= 2
    /\ Cardinality(call.pre.members) = 1
    /\ Cardinality(members) = 2
    /\ Len(sorted_hashes) = 2 * number_of_replicas

\* No query on ring r returns m.
NeverReturned(r, m) ==
    \A name \in Keys :
        /\ get(r, name).tag = "Ok" => get(r, name).val # m
        /\ get_two(r, name).tag = "Ok" =>
               m \notin {get_two(r, name).val[1], get_two(r, name).val[2]}
        /\ \A n \in 0..MaxN :
               get_n(r, name, n).tag = "Ok" => m \notin Range(get_n(r, name, n).val)

\* C9: after remove(m) completes m is not in members, no circle entry has
\* value m, none of m's hash positions is left in circle or sorted_hashes, no
\* query returns m, and add(m) then remove(m) on an empty ring leaves circle
\* and sorted_hashes empty.
C9_RemovalComplete ==
    Completed("remove") =>
        /\ call.elt \notin members
        /\ OwnedBy(circle, call.elt) = {}
        /\ Positions(call.elt) \cap DOMAIN circle = {}
        /\ Positions(call.elt) \cap Range(sorted_hashes) = {}
        /\ NeverReturned(self, call.elt)
        /\ call.pre = add(new, call.elt) =>
               (DOMAIN circle = {} /\ sorted_hashes = <<>>)

\* The removal of a member that owned a key, from a ring that stays non-empty.
C9_Witness ==
    /\ Completed("remove")
    /\ call.elt \in call.pre.members
    /\ DOMAIN circle # {}
    /\ \E name \in Keys : get(call.pre, name) = Ok(call.elt)

\* C10: remove(x) of a name that is not a member leaves members, count,
\* circle and sorted_hashes unchanged, from every ring, the empty one included.
\* Stated for the rings whose virtual-node hashes do not collide, which the
\* claim covers.
C10_RemoveAbsentIsNoOp ==
    (Completed("remove") /\ call.elt \notin call.pre.members /\ NoCollisions) =>
        /\ members = call.pre.members
        /\ count = call.pre.count
        /\ circle = call.pre.circle
        /\ sorted_hashes = call.pre.sorted_hashes

-----------------------------------------------------------------------------

IsMutation == call.op \in {"add", "remove", "set"}

\* C11: add, remove and set are total: on any ring, with any input and for
\* any number_of_replicas the builder accepts, 0 included, the call completes
\* without failing or aborting.
C11_MutationsTotal == IsMutation => call.ret.tag = "Done"

\* C12: after every completed mutation, the add of a member and the remove
\* of a non-member included, count equals the number of names in members and
\* has not wrapped below zero.
C12_CountIsMembers ==
    (IsMutation /\ call.ret.tag = "Done") =>
        (count = Cardinality(members) /\ count >= 0)

\* C13: the ring walk of get_two and get_n always terminates, after at most
\* one full circle of sorted_hashes, from every starting index and in every
\* reachable state, those where the distinctness target cannot be met included.
\* Stated for get_two and for get_n with n >= 1, which the claim covers.
C13_WalkTerminates ==
    (call.op = "get_two" \/ (call.op = "get_n" /\ call.n >= 1)) =>
        call.ret.tag # "Hang"

-----------------------------------------------------------------------------
(* Concurrent callers, lib.rs:42-205 step by step *)

(***************************************************************************)
(* The ring is shared by reference between threads (its methods take       *)
(* &self).  Two threads run one call each.  A step is one access to a      *)
(* shared field: one DashMap/DashSet operation, one atomic operation on    *)
(* count, or one acquisition or release of the RwLock; accesses to         *)
(* sorted_hashes made while the write lock is held go with the lock step   *)
(* that precedes them or stand alone.  DashMap::iter visits the map shard  *)
(* by shard and is not a snapshot: the rebuild reads the hash points one   *)
(* at a time, in any order, each as it is when read.                       *)
(***************************************************************************)

ThreadIds == {1, 2}

\* The member names the concurrent callers use: two with one replica each,
\* one with two replicas.
ConcNames == <<"a", "b">>
ConcElts(r) == {ConcNames[k] : k \in 1..(Len(ConcNames) \div r)}
ConcVNodeKeys(r) == {elt_key(e, i) : e \in ConcElts(r), i \in 0..(r - 1)}
ConcHashValues(r) == 0..(2 * Cardinality(ConcVNodeKeys(r)))
ConcKeys(r) == {KeyName(h) : h \in ConcHashValues(r)}
ConcLists(r) == UNION {[1..k -> ConcElts(r)] : k \in 0..MaxSetLen}

\* The hash functions of the concurrent runs, built as HashFunctions is.
ConcHashFunctions(r) ==
    LET V == ConcVNodeKeys(r)
        Ranks == {f \in [V -> 0..(Cardinality(V) - 1)] :
                     \A v \in V : f[v] = 0 \/ \E w \in V : f[w] = f[v] - 1}
    IN  {[s \in V \cup ConcKeys(r) |->
             IF s \in V THEN 2 * f[s] + 1
             ELSE CHOOSE h \in ConcHashValues(r) : KeyName(h) = s] : f \in Ranks}

\* The hash values a virtual node can have: the entries DashMap::iter can meet.
HashPoints == {hash_key(v) : v \in ConcVNodeKeys(number_of_replicas)}

Running == [tag |-> "Running", val |-> <<>>]

\* A thread: its call, its position pc and its locals.
\*   subop, sub, i   the add or remove under way, its member, its replica index
\*   keys, todo      set: the members still to remove, the elts still to add
\*   was             set: the members when the call scanned them
\*   visited         update_sorted_hashes: the hash points the iteration has passed
\*   i, a, res, j    queries: search's index, first member, result list, walk index
\*   seen            queries: sorted_hashes as search read it
Thread(op, elt, elts, name, n, pc) ==
    [op |-> op, elt |-> elt, elts |-> elts, name |-> name, n |-> n, pc |-> pc,
     subop |-> IF op \in {"add", "remove"} THEN op ELSE "", sub |-> elt, i |-> 0,
     keys |-> <<>>, todo |-> <<>>, was |-> {}, visited |-> {},
     a |-> "", res |-> <<>>, j |-> 0, seen |-> <<>>, ret |-> Running]

AddRemoves(r) ==
    {Thread(op, e, <<>>, "", 0, "circle") : op \in {"add", "remove"}, e \in ConcElts(r)}
Sets(r) == {Thread("set", "", l, "", 0, "scan") : l \in ConcLists(r)}
Queries(r) ==
    {Thread(op, "", <<>>, k, 0, "is_empty") : op \in {"get", "get_two"}, k \in ConcKeys(r)}
    \cup {Thread("get_n", "", <<>>, k, n, "is_empty") : k \in ConcKeys(r), n \in 0..MaxN}

\* Two mutators (add, remove), or one mutator (add, remove, set) and one query.
Scenarios(r) ==
    {<<m, o>> : m \in AddRemoves(r), o \in AddRemoves(r)}
    \cup {<<m, q>> : m \in AddRemoves(r) \cup Sets(r), q \in Queries(r)}

\* The rings the threads start from: built by one caller from `new`.
StartRings(r) ==
    {add_missing(new, l) : l \in UNION {Orders(S) : S \in SUBSET ConcElts(r)}}

ConcInit ==
    /\ number_of_replicas \in {r \in 1..MaxReplicas : ConcElts(r) # {}}
    /\ hash_of \in ConcHashFunctions(number_of_replicas)
    /\ \E r \in StartRings(number_of_replicas) :
          /\ circle = r.circle
          /\ members = r.members
          /\ sorted_hashes = r.sorted_hashes
          /\ count = r.count
    /\ threads \in Scenarios(number_of_replicas)
    /\ rwlock = Unlocked
    /\ call = [op |-> "new", elt |-> "", elts |-> <<>>, name |-> "", n |-> 0,
               ret |-> Done, pre |-> new]

Becomes_(t, th) == threads' = [threads EXCEPT ![t] = th]

\* The write lock granted whatever the lock's state.
can_write_always(lock) == TRUE

\* parking_lot RwLock: write() waits for the lock to be free, read() for no writer.
can_write(lock) == lock.writer = 0 /\ lock.readers = {}
can_read(lock) == lock.writer = 0

\* lib.rs:64-78  set collects the members that are not in elts.
SetScan(t) ==
    LET th == threads[t]
    IN  /\ th.pc = "scan"
        /\ \E keys \in Orders(members \ Range(th.elts)) :
              Becomes_(t, [th EXCEPT !.pc = "next", !.keys = keys, !.todo = th.elts,
                                     !.was = members])
        /\ UNCHANGED <<circle, members, sorted_hashes, number_of_replicas, count,
                       hash_of, call, rwlock>>

\* set with the loop over elts ahead of the loop over keys.
set_adds_first(th, ms) ==
    IF th.todo # <<>>
    THEN IF Head(th.todo) \in ms THEN [th EXCEPT !.todo = Tail(th.todo)]
         ELSE [th EXCEPT !.pc = "circle", !.subop = "add", !.sub = Head(th.todo),
                         !.todo = Tail(th.todo), !.i = 0]
    ELSE IF th.keys # <<>>
    THEN [th EXCEPT !.pc = "circle", !.subop = "remove", !.sub = Head(th.keys),
                    !.keys = Tail(th.keys), !.i = 0]
    ELSE [th EXCEPT !.pc = "done", !.ret = Done]

\* lib.rs:79-87  the next call set makes: remove(k) for the keys collected,
\* then add(v) for the elts that members (ms) does not contain.
set_next(th, ms) ==
    IF th.keys # <<>>
    THEN [th EXCEPT !.pc = "circle", !.subop = "remove", !.sub = Head(th.keys),
                    !.keys = Tail(th.keys), !.i = 0]
    ELSE IF th.todo # <<>>
    THEN IF Head(th.todo) \in ms THEN [th EXCEPT !.todo = Tail(th.todo)]
         ELSE [th EXCEPT !.pc = "circle", !.subop = "add", !.sub = Head(th.todo),
                         !.todo = Tail(th.todo), !.i = 0]
    ELSE [th EXCEPT !.pc = "done", !.ret = Done]

SetNext(t) ==
    LET th == threads[t]
    IN  /\ th.pc = "next"
        /\ Becomes_(t, set_next(th, members))
        /\ UNCHANGED <<circle, members, sorted_hashes, number_of_replicas, count,
                       hash_of, call, rwlock>>

\* lib.rs:44-47 and 54-57  one round of the loop: circle.insert or circle.remove.
CircleStep(t) ==
    LET th == threads[t]
        h == hash_key(elt_key(th.sub, th.i))
    IN  /\ th.pc = "circle"
        /\ circle' = IF th.subop = "add"
                     THEN [g \in (DOMAIN circle) \cup {h} |-> IF g = h THEN th.sub ELSE circle[g]]
                     ELSE [g \in (DOMAIN circle) \ {h} |-> circle[g]]
        /\ Becomes_(t, [th EXCEPT !.i = @ + 1,
                                  !.pc = IF th.i + 1 = number_of_replicas
                                         THEN "members" ELSE "circle"])
        /\ UNCHANGED <<members, sorted_hashes, number_of_replicas, count, hash_of,
                       call, rwlock>>

\* lib.rs:48 and 58  members.insert or members.remove.
MembersStep(t) ==
    LET th == threads[t]
    IN  /\ th.pc = "members"
        /\ members' = IF th.subop = "add" THEN members \cup {th.sub}
                      ELSE members \ {th.sub}
        /\ Becomes_(t, [th EXCEPT !.pc = "lock"])
        /\ UNCHANGED <<circle, sorted_hashes, number_of_replicas, count, hash_of,
                       call, rwlock>>

\* lib.rs:195-196  sorted_hashes.write(), then clear().
WriteLock(t) ==
    LET th == threads[t]
    IN  /\ th.pc = "lock"
        /\ can_write(rwlock)
        /\ rwlock' = [rwlock EXCEPT !.writer = t]
        /\ sorted_hashes' = <<>>
        /\ Becomes_(t, [th EXCEPT !.pc = "iter", !.visited = {}])
        /\ UNCHANGED <<circle, members, number_of_replicas, count, hash_of, call>>

\* lib.rs:201-203  the iteration reaches one more hash point and pushes the
\* key it finds there.
Iterate(t) ==
    LET th == threads[t]
    IN  /\ th.pc = "iter"
        /\ \E h \in HashPoints \ th.visited :
              /\ sorted_hashes' = IF h \in DOMAIN circle THEN Append(sorted_hashes, h)
                                  ELSE sorted_hashes
              /\ Becomes_(t, [th EXCEPT !.visited = @ \cup {h}])
        /\ UNCHANGED <<circle, members, number_of_replicas, count, hash_of, call,
                       rwlock>>

RECURSIVE sort(_)
\* Vec::sort (lib.rs:204).
sort(v) ==
    IF v = <<>> THEN <<>>
    ELSE LET k == CHOOSE k \in 1..Len(v) : \A l \in 1..Len(v) : v[k] <= v[l]
         IN  <<v[k]>> \o sort(SubSeq(v, 1, k - 1) \o SubSeq(v, k + 1, Len(v)))

\* lib.rs:204-205  sort, and the write guard dropped at the end of the function.
SortUnlock(t) ==
    LET th == threads[t]
    IN  /\ th.pc = "iter"
        /\ th.visited = HashPoints
        /\ sorted_hashes' = sort(sorted_hashes)
        /\ rwlock' = [rwlock EXCEPT !.writer = 0]
        /\ Becomes_(t, [th EXCEPT !.pc = "count"])
        /\ UNCHANGED <<circle, members, number_of_replicas, count, hash_of, call>>

\* lib.rs:50 and 60  count.fetch_add(1) or count.fetch_sub(1); the call
\* returns, and set goes on to its next call.
CountStep(t) ==
    LET th == threads[t]
    IN  /\ th.pc = "count"
        /\ count' = IF th.subop = "add" THEN count + 1 ELSE count - 1
        /\ Becomes_(t, IF th.op = "set" THEN [th EXCEPT !.pc = "next"]
                       ELSE [th EXCEPT !.pc = "done", !.ret = Done])
        /\ UNCHANGED <<circle, members, sorted_hashes, number_of_replicas, hash_of,
                       call, rwlock>>

Returns(th, ret) == [th EXCEPT !.pc = "done", !.ret = ret]

\* lib.rs:98-100, 111-113, 142-144  circle.is_empty().
IsEmpty(t) ==
    LET th == threads[t]
    IN  /\ th.pc = "is_empty"
        /\ Becomes_(t, IF DOMAIN circle = {} THEN Returns(th, EmptyCircle)
                       ELSE [th EXCEPT !.pc = IF th.op = "get_n" THEN "count"
                                              ELSE "search"])
        /\ UNCHANGED <<circle, members, sorted_hashes, number_of_replicas, count,
                       hash_of, call, rwlock>>

\* lib.rs:145-148 (get_n caps n by count) and 121-123 (get_two returns the
\* single member when count is 1): count.load.
LoadCount(t) ==
    LET th == threads[t]
    IN  /\ th.pc = "count"
        /\ th.op \in {"get_two", "get_n"}
        /\ Becomes_(t, IF th.op = "get_n"
                       THEN [th EXCEPT !.n = capped(count, th.n), !.pc = "search"]
                       ELSE IF count = 1 THEN Returns(th, Ok(<<th.a, "">>))
                       ELSE [th EXCEPT !.pc = "rlock"])
        /\ UNCHANGED <<circle, members, sorted_hashes, number_of_replicas, count,
                       hash_of, call, rwlock>>

\* lib.rs:180-188  search takes the read lock, finds the index and drops the
\* lock when it returns.
Search(t) ==
    LET th == threads[t]
    IN  /\ th.pc = "search"
        /\ can_read(rwlock)
        /\ Becomes_(t, [th EXCEPT !.i = search(sorted_hashes, hash_key(th.name)),
                                  !.seen = sorted_hashes,
                                  !.pc = IF th.op = "get_n" THEN "rlock" ELSE "use"])
        /\ UNCHANGED <<circle, members, sorted_hashes, number_of_replicas, count,
                       hash_of, call, rwlock>>

\* lib.rs:103-106, 116-119  sorted_hashes.read()[i] under a read lock taken
\* for the expression, circle.get(..).unwrap().
Use(t) ==
    LET th == threads[t]
    IN  /\ th.pc = "use"
        /\ can_read(rwlock)
        /\ Becomes_(t, IF ~Resolves(self, th.i) THEN Returns(th, Panic)
                       ELSE IF th.op = "get" THEN Returns(th, Ok(Owner(self, th.i)))
                       ELSE [th EXCEPT !.a = Owner(self, th.i), !.pc = "count"])
        /\ UNCHANGED <<circle, members, sorted_hashes, number_of_replicas, count,
                       hash_of, call, rwlock>>

\* lib.rs:126  get_two takes the read lock for its walk.
\* lib.rs:152-163  get_n takes it, resolves the first member and returns it
\* when n is 1.  A panic or a return drops the guard.
ReadLock(t) ==
    LET th == threads[t]
        th1 == IF th.op = "get_two" THEN [th EXCEPT !.j = th.i + 1, !.pc = "walk"]
               ELSE IF ~Resolves(self, th.i) THEN Returns(th, Panic)
               ELSE IF th.n = 1 THEN Returns(th, Ok(<<Owner(self, th.i)>>))
               ELSE [th EXCEPT !.res = <<Owner(self, th.i)>>, !.j = th.i + 1,
                               !.pc = "walk"]
    IN  /\ th.pc = "rlock"
        /\ can_read(rwlock)
        /\ Becomes_(t, th1)
        /\ rwlock' = IF th1.pc = "walk" THEN [rwlock EXCEPT !.readers = @ \cup {t}]
                     ELSE rwlock
        /\ UNCHANGED <<circle, members, sorted_hashes, number_of_replicas, count,
                       hash_of, call>>

\* lib.rs:127-130 and 164-167  the loop test `j != i` and the reset of j to
\* 0 at the end of the index, on the ring r as it is now.
walk_test(th, r) ==
    IF th.j = th.i
    THEN Returns(th, Ok(IF th.op = "get_two" THEN <<th.a, "">> ELSE th.res))
    ELSE [th EXCEPT !.j = IF th.j >= Len(r.sorted_hashes) THEN 0 ELSE th.j,
                    !.pc = "visit"]

\* lib.rs:131-136 and 168-175  the rest of the round: the member at j is
\* resolved and compared or collected, and j is incremented.
walk_visit(th, r) ==
    IF ~Resolves(r, th.j) THEN Returns(th, Panic)
    ELSE IF th.op = "get_two"
    THEN IF th.a # Owner(r, th.j) THEN Returns(th, Ok(<<th.a, Owner(r, th.j)>>))
         ELSE [th EXCEPT !.j = th.j + 1, !.pc = "walk"]
    ELSE LET res1 == IF slice_contains_member(th.res, Owner(r, th.j)) THEN th.res
                     ELSE Append(th.res, Owner(r, th.j))
         IN  IF Len(res1) = th.n THEN Returns(th, Ok(res1))
             ELSE [th EXCEPT !.res = res1, !.j = th.j + 1, !.pc = "walk"]

\* A return or a panic drops the read guard.
Walk(t) ==
    LET th == threads[t]
        th1 == walk_test(th, self)
    IN  /\ th.pc = "walk"
        /\ Becomes_(t, th1)
        /\ rwlock' = IF th1.pc = "done" THEN [rwlock EXCEPT !.readers = @ \ {t}]
                     ELSE rwlock
        /\ UNCHANGED <<circle, members, sorted_hashes, number_of_replicas, count,
                       hash_of, call>>

Visit(t) ==
    LET th == threads[t]
        th1 == walk_visit(th, self)
    IN  /\ th.pc = "visit"
        /\ Becomes_(t, th1)
        /\ rwlock' = IF th1.pc = "done" THEN [rwlock EXCEPT !.readers = @ \ {t}]
                     ELSE rwlock
        /\ UNCHANGED <<circle, members, sorted_hashes, number_of_replicas, count,
                       hash_of, call>>

Step(t) ==
    \/ SetScan(t)
    \/ SetNext(t)
    \/ CircleStep(t)
    \/ MembersStep(t)
    \/ WriteLock(t)
    \/ Iterate(t)
    \/ SortUnlock(t)
    \/ CountStep(t)
    \/ IsEmpty(t)
    \/ LoadCount(t)
    \/ Search(t)
    \/ Use(t)
    \/ ReadLock(t)
    \/ Walk(t)
    \/ Visit(t)

ConcNext == \E t \in ThreadIds : Step(t)

ConcSpec == ConcInit /\ [][ConcNext]_vars

\* Every thread that can take a step gets to take one: the operating
\* system's scheduler starves no runnable thread.
ConcFairSpec == ConcSpec /\ \A t \in ThreadIds : WF_vars(Step(t))

-----------------------------------------------------------------------------
(* Properties of the concurrent callers *)

IsQueryThread(th) == th.op \in {"get", "get_two", "get_n"}

\* No two virtual-node keys of the concurrent callers' names hash to the
\* same value.
ConcNoCollisions ==
    \A v, w \in ConcVNodeKeys(number_of_replicas) : v # w => hash_key(v) # hash_key(w)

\* C15: a query that runs concurrently with an add, remove or set never
\* panics: it never indexes sorted_hashes out of bounds and never fails to
\* resolve a hash of the index in circle, so it completes with a member
\* result or with EmptyCircle.  Stated for the rings whose virtual-node
\* hashes do not collide, which the claim covers.
C15_QueryNeverPanics ==
    ConcNoCollisions =>
        \A t \in DOMAIN threads :
            IsQueryThread(threads[t]) => threads[t].ret.tag # "Panic"

\* A query has made its search and has still to use, or is using, the
\* position it found.
Searched(th) ==
    /\ IsQueryThread(th)
    /\ \/ th.pc \in {"use", "rlock", "walk", "visit"}
       \/ th.op = "get_two" /\ th.pc = "count"

\* C16: from its search to its use of the position found, a query works on
\* the sorted_hashes contents the search read: no rebuild of the index by a
\* concurrent mutation happens in between.
C16_IndexHeldFromSearch ==
    \A t \in DOMAIN threads :
        Searched(threads[t]) => sorted_hashes = threads[t].seen

\* Every thread runs an add or a remove and has returned.
MutatorsDone ==
    /\ threads # <<>>
    /\ \A t \in DOMAIN threads :
          threads[t].op \in {"add", "remove"} /\ threads[t].pc = "done"

\* C17: when add and remove calls that ran concurrently on different
\* threads have all completed, sorted_hashes is the ascending sequence of
\* exactly the keys of circle.
C17_QuiescentIndex ==
    MutatorsDone => sorted_hashes = SortAsc(DOMAIN circle)

\* Two threads have added or removed two different members, one of them
\* added, and the index has two entries or more.
C17_Witness ==
    /\ MutatorsDone
    /\ threads[1].elt # threads[2].elt
    /\ \E t \in DOMAIN threads : threads[t].op = "add"
    /\ Len(sorted_hashes) >= 2

\* One thread has run add(m) and the other remove(m), for the same name m,
\* and both have returned.
AddAndRemoveDone ==
    /\ threads # <<>>
    /\ \A t \in DOMAIN threads : threads[t].pc = "done"
    /\ {threads[t].op : t \in DOMAIN threads} = {"add", "remove"}
    /\ threads[1].elt = threads[2].elt

\* C18: when add(m) and remove(m) that ran concurrently have both completed,
\* circle and members agree: m is a member and owns number_of_replicas circle
\* entries, or m is no member and owns none, and every circle entry belongs
\* to a member.  Stated for the rings whose virtual-node hashes do not
\* collide, which the claim covers.
C18_CircleAndMembersAgree ==
    (AddAndRemoveDone /\ ConcNoCollisions) =>
        LET m == threads[1].elt
        IN  /\ \/ m \in members /\ Cardinality(OwnedBy(circle, m)) = number_of_replicas
               \/ m \notin members /\ OwnedBy(circle, m) = {}
            /\ \A h \in DOMAIN circle : circle[h] \in members

\* Thread t runs set(L) on a ring that had members, none of them in L, and L
\* is not empty: neither the ring before the call nor the ring after it is
\* empty.
ReplacesAll(t) ==
    /\ threads[t].op = "set"
    /\ threads[t].was # {}
    /\ threads[t].was \cap Range(threads[t].elts) = {}
    /\ threads[t].elts # <<>>

\* Thread t is between the two loops of its set: it has made no insertion
\* yet, and it is at the top of the loop over elts with no key left to
\* remove, or at the first insertion of its first add.
BetweenLoops(t) ==
    \/ /\ threads[t].pc = "next"
       /\ threads[t].keys = <<>>
       /\ threads[t].todo = threads[t].elts
    \/ /\ threads[t].pc = "circle"
       /\ threads[t].subop = "add"
       /\ threads[t].i = 0
       /\ Len(threads[t].todo) = Len(threads[t].elts) - 1

\* C20: set is not atomic for concurrent readers.  While set(L) runs on a
\* ring whose members are all absent from L, there is an intermediate state,
\* after the removals and before the additions, in which the ring is empty:
\* circle has no entry and members has no name, so a reader's get returns
\* EmptyCircle and members() is empty.
C20_SetPassesThroughEmpty ==
    \A t \in DOMAIN threads :
        (ReplacesAll(t) /\ BetweenLoops(t)) =>
            /\ DOMAIN circle = {}
            /\ members_of(self) = {}

\* A reader's get has returned EmptyCircle while the other thread's set(L),
\* on a ring that was not empty and with a non-empty L, is between its two
\* loops.
C20_Witness ==
    /\ threads # <<>>
    /\ ReplacesAll(1)
    /\ BetweenLoops(1)
    /\ threads[2].op = "get"
    /\ threads[2].ret = EmptyCircle

\* Every thread's call has returned (or has ended in a panic).
AllReturned == \A t \in DOMAIN threads : threads[t].pc = "done"

\* C19: under fair scheduling every call made concurrently with other
\* mutations and queries eventually returns; no thread waits forever on a
\* lock.
C19_EveryCallReturns == <>AllReturned

====
